---------------------------- MODULE Spec2Model ----------------------------
(***************************************************************************)
(* Authentication-context resolution of the Nextcloud MCP server.          *)
(*                                                                         *)
(* The model covers get_client (nextcloud_mcp_server/context.py), the      *)
(* nc://capabilities resource handler that calls it (smithery_server.py,   *)
(* smithery_entrypoint.py) and the container entry point's query parsing   *)
(* (smithery_entrypoint.py).  Requests are asyncio tasks of one process:   *)
(* a task keeps the interpreter until it reaches an await that suspends,   *)
(* and only then may another task run.                                     *)
(***************************************************************************)
EXTENDS Integers, Sequences, FiniteSets, TLC

(* Number of requests (tasks) in flight in the process. *)
NumReqs == 2

Reqs == 1..NumReqs

EnvVars == {"NEXTCLOUD_HOST", "NEXTCLOUD_USERNAME", "NEXTCLOUD_PASSWORD"}

(* os.environ.get(name) of a variable that is not set. *)
None == "<None>"

(* Environments the process may start with: nothing set, everything set, *)
(* and a mix with an empty-string value and an absent variable.           *)
InitialEnvironments ==
    { [v \in EnvVars |-> None],
      [NEXTCLOUD_HOST |-> "https://env.example", NEXTCLOUD_USERNAME |-> "envuser",
       NEXTCLOUD_PASSWORD |-> "envpass"],
      [NEXTCLOUD_HOST |-> "https://env.example", NEXTCLOUD_USERNAME |-> "",
       NEXTCLOUD_PASSWORD |-> None] }

(* Strings os.environ refuses to store: putenv raises ValueError for an *)
(* embedded null byte and leaves the variable as it was.                 *)
Unwritable == {"bob<NUL>"}

(* Host strings NextcloudClient.from_env() rejects as not a URL. *)
MalformedHosts == {"", "not-a-url"}

VARIABLES
    lifespan_ctx,          \* ctx.request_context.lifespan_context: which attributes it has
    enable_token_exchange, \* get_settings().enable_token_exchange
    environ,               \* os.environ restricted to the three NEXTCLOUD_* variables
    running,               \* the task that holds the interpreter, 0 when the event loop does
    pc,                    \* per request: the statement it executes next
    path,                  \* per request: the branch of get_client it took
    session_config,        \* per request: ctx.session_config as read at line 55
    old,                   \* per request: old_host, old_username, old_password
    client,                \* per request: the client get_client returned
    raised,                \* per request: the exception in flight or propagated
    calls,                 \* per request: how often each collaborator was invoked
    environ0,              \* history: the environment at process start
    env_at_entry           \* history: the environment when the request's get_client started

vars == <<lifespan_ctx, enable_token_exchange, environ, running, pc, path,
          session_config, old, client, raised, calls, environ0, env_at_entry>>

----------------------------------------------------------------------------
(* Lifespan context shapes. smithery_mode is "absent", FALSE or TRUE; the *)
(* other two attributes are present or not.                                *)

SmitheryModes == {"absent", "false", "true"}

LifespanContexts ==
    [smithery_mode : SmitheryModes, has_client : BOOLEAN, has_nextcloud_host : BOOLEAN]

(* SmitheryAppContext(smithery_mode=True), the context both lifespans yield. *)
SmitheryAppContext ==
    [smithery_mode |-> "true", has_client |-> FALSE, has_nextcloud_host |-> FALSE]

----------------------------------------------------------------------------
(* Clients. *)

NoClient == [kind |-> "none", id |-> 0, host |-> None, username |-> None, password |-> None]

(* lifespan_ctx.client: the one client built at startup. *)
SharedClient ==
    [kind |-> "shared", id |-> 0, host |-> None, username |-> None, password |-> None]

NoCalls == [from_env |-> 0, exchange |-> 0, direct |-> 0, capabilities |-> 0, close |-> 0]

----------------------------------------------------------------------------
(* Session configurations.  A configuration is either an object with the  *)
(* three attributes of NextcloudConfigSchema, whose nextcloud_host is an   *)
(* AnyHttpUrl, or the plain dict the container entry point builds.         *)

Missing == "<missing>"

Url(text) == <<"AnyHttpUrl", text>>

(* str(url): the text of a URL object. *)
Str(url) == url[2]

NoConfig ==
    [kind |-> "none", nextcloud_host |-> Missing, username |-> Missing, password |-> Missing]

NextcloudConfigSchema(h, u, p) ==
    [kind |-> "object", nextcloud_host |-> Url(h), username |-> u, password |-> p]

(* Queries are sequences of decoded name=value pairs. *)
Queries ==
    { << <<"nextcloud_host", "https://cloud.example.com">>, <<"username", "alice">>,
         <<"password", "secret">> >>,
      << <<"username", "alice">>, <<"username", "mallory">>, <<"password", "">>,
         <<"debug", "1">> >> }

(* parse_qs(query)[key]: the non-blank values of key, in order. *)
RECURSIVE ParseQs(_, _)
ParseQs(query, key) ==
    IF query = <<>> THEN <<>>
    ELSE LET pair == Head(query)
             rest == ParseQs(Tail(query), key)
         IN IF pair[1] = key /\ pair[2] # "" THEN <<pair[2]>> \o rest ELSE rest

(* config[key] when key is in params, taking the first value of its list. *)
FirstValue(query, key) ==
    IF ParseQs(query, key) # <<>> THEN ParseQs(query, key)[1] ELSE Missing

parse_config_from_query(query) ==
    [kind |-> "dict",
     nextcloud_host |-> FirstValue(query, "nextcloud_host"),
     username |-> FirstValue(query, "username"),
     password |-> FirstValue(query, "password")]

(* request.scope["session_config"] = config, read back as ctx.session_config. *)
mcp_handler(query) == parse_config_from_query(query)

(* Configurations a hosting platform hands over as objects. *)
PlatformConfigs ==
    { NextcloudConfigSchema("https://a.example", "U1", "P1"),
      NextcloudConfigSchema("https://b.example", "U2", "P2"),
      NextcloudConfigSchema("https://b.example", "bob<NUL>", "P2"),
      NextcloudConfigSchema("not-a-url", "U1", "P1") }

SessionConfigs == PlatformConfigs \cup { mcp_handler(q) : q \in Queries }

(* session_config.<attr>: an object has the attribute, a dict has none. *)
HasAttr(cfg, attr) == cfg.kind = "object"

----------------------------------------------------------------------------
(* os.environ *)

(* os.environ[name] = value succeeds only for a storable string. *)
Writable(value) == value \notin Unwritable

SetEnv(env, name, value) == [env EXCEPT ![name] = value]

DelEnv(env, name) == [env EXCEPT ![name] = None]

(* RestoreVar testing the saved value for truth instead of "is not None": *)
(* a variable that held the empty string is deleted.                      *)
RestoreVarByTruth(env, name, old_value) ==
    IF old_value \notin {None, ""} THEN SetEnv(env, name, old_value)
    ELSE IF env[name] # None THEN DelEnv(env, name)
    ELSE env

(* One variable of the finally block, lines 73-76 / 78-81 / 83-86. *)
RestoreVar(env, name, old_value) ==
    IF old_value # None THEN SetEnv(env, name, old_value)
    ELSE IF env[name] # None THEN DelEnv(env, name)
    ELSE env

(* Restore without its third stanza: the password is left as written. *)
RestoreWithoutPassword(env, olds) ==
    LET e1 == RestoreVar(env, "NEXTCLOUD_HOST", olds["NEXTCLOUD_HOST"])
    IN RestoreVar(e1, "NEXTCLOUD_USERNAME", olds["NEXTCLOUD_USERNAME"])

(* The finally block, lines 71-86. *)
Restore(env, olds) ==
    LET e1 == RestoreVar(env, "NEXTCLOUD_HOST", olds["NEXTCLOUD_HOST"])
        e2 == RestoreVar(e1, "NEXTCLOUD_USERNAME", olds["NEXTCLOUD_USERNAME"])
    IN RestoreVar(e2, "NEXTCLOUD_PASSWORD", olds["NEXTCLOUD_PASSWORD"])

(* NextcloudClient.from_env(): fails when a variable is absent or the host *)
(* is not a URL, otherwise a client of the three values.                   *)
FromEnvFails(env) ==
    \/ \E v \in EnvVars : env[v] = None
    \/ env["NEXTCLOUD_HOST"] \in MalformedHosts

from_env(env, r) ==
    [kind |-> "env", id |-> r, host |-> env["NEXTCLOUD_HOST"],
     username |-> env["NEXTCLOUD_USERNAME"], password |-> env["NEXTCLOUD_PASSWORD"]]

(* get_session_client_from_context / get_client_from_context results. *)
ExchangedClient(r) ==
    [kind |-> "exchanged", id |-> r, host |-> None, username |-> None, password |-> None]

InboundClient(r) ==
    [kind |-> "inbound", id |-> r, host |-> None, username |-> None, password |-> None]

----------------------------------------------------------------------------
(* SelectPath testing only hasattr(lifespan_ctx, "smithery_mode"). *)
SelectPathByMarkerPresence(lctx) ==
    IF lctx.smithery_mode # "absent" THEN "session"
    ELSE IF lctx.has_client THEN "shared"
    ELSE IF lctx.has_nextcloud_host THEN "oauth"
    ELSE "unknown"

(* SelectPath testing nextcloud_host before client. *)
SelectPathHostFirst(lctx) ==
    IF lctx.smithery_mode = "true" THEN "session"
    ELSE IF lctx.has_nextcloud_host THEN "oauth"
    ELSE IF lctx.has_client THEN "shared"
    ELSE "unknown"

(* Branch selection of get_client, lines 53, 89, 93 and 113. *)
SelectPath(lctx) ==
    IF lctx.smithery_mode = "true" THEN "session"
    ELSE IF lctx.has_client THEN "shared"
    ELSE IF lctx.has_nextcloud_host THEN "oauth"
    ELSE "unknown"

(* OAuthHelper with the branches of the flag swapped. *)
OAuthHelperSwapped(flag) == IF flag THEN "direct" ELSE "exchange"

(* OAuthHelper ignoring the flag. *)
OAuthHelperAlwaysExchange(flag) == "exchange"

(* The helper the OAuth branch invokes, lines 99-110. *)
OAuthHelper(flag) == IF flag THEN "exchange" ELSE "direct"

(* SuspensionPoints with a client construction that is awaited. *)
SuspensionPointsWithFromEnv ==
    {"await_exchange", "await_capabilities", "await_close", "from_env"}

(* Statements at which a task is suspended and the event loop may run *)
(* another task: the awaits on the token exchange, on capabilities()  *)
(* and on close().                                                     *)
SuspensionPoints == {"await_exchange", "await_capabilities", "await_close"}

Yields(label) == label \in SuspensionPoints \cup {"done"}

----------------------------------------------------------------------------
Init ==
    /\ lifespan_ctx \in LifespanContexts
    /\ enable_token_exchange \in BOOLEAN
    /\ environ \in InitialEnvironments
    /\ environ0 = environ
    /\ running = 0
    /\ pc = [r \in Reqs |-> "get_client"]
    /\ path = [r \in Reqs |-> "none"]
    /\ session_config = [r \in Reqs |-> NoConfig]
    /\ old = [r \in Reqs |-> [v \in EnvVars |-> None]]
    /\ client = [r \in Reqs |-> NoClient]
    /\ raised = [r \in Reqs |-> "none"]
    /\ calls = [r \in Reqs |-> NoCalls]
    /\ env_at_entry = [r \in Reqs |-> environ]

(* A task runs when it holds the interpreter, or when the event loop does *)
(* and the task has not finished.                                          *)
CanRun(r) == running = r \/ (running = 0 /\ pc[r] # "done")

Goto(r, label) ==
    /\ pc' = [pc EXCEPT ![r] = label]
    /\ running' = IF Yields(label) THEN 0 ELSE r

Raise(r, exc) == raised' = [raised EXCEPT ![r] = exc]

Called(r, what) == calls' = [calls EXCEPT ![r][what] = @ + 1]

Settings == <<lifespan_ctx, enable_token_exchange, environ0>>

(* The handler calls get_client (smithery_server.py 109-110), which reads *)
(* the lifespan context and selects its branch (context.py 49-53, 89, 93). *)
Enter(r, branch) ==
    /\ CanRun(r)
    /\ pc[r] = "get_client"
    /\ SelectPath(lifespan_ctx) = branch
    /\ path' = [path EXCEPT ![r] = branch]
    /\ env_at_entry' = [env_at_entry EXCEPT ![r] = environ]

(* context.py 53-55: session_config = ctx.session_config *)
EnterSession(r) ==
    /\ Enter(r, "session")
    /\ \E cfg \in SessionConfigs : session_config' = [session_config EXCEPT ![r] = cfg]
    /\ Goto(r, "save_old")
    /\ UNCHANGED <<Settings, environ, old, client, raised, calls>>

(* context.py 59-61 *)
SaveOld(r) ==
    /\ CanRun(r)
    /\ pc[r] = "save_old"
    /\ old' = [old EXCEPT ![r] = environ]
    /\ Goto(r, "set_host")
    /\ UNCHANGED <<Settings, environ, path, session_config, client, raised, calls,
                   env_at_entry>>

(* One assignment os.environ[name] = value of lines 64-66: the attribute *)
(* lookup or the write may raise, and then control passes to finally.    *)
SetVar(r, label, name, attr, next) ==
    /\ CanRun(r)
    /\ pc[r] = label
    /\ \/ /\ ~HasAttr(session_config[r], attr)
          /\ Raise(r, "AttributeError")
          /\ Goto(r, "restore")
          /\ UNCHANGED environ
       \/ /\ HasAttr(session_config[r], attr)
          /\ LET value == IF attr = "nextcloud_host"
                          THEN Str(session_config[r][attr])
                          ELSE session_config[r][attr]
             IN \/ /\ Writable(value)
                   /\ environ' = SetEnv(environ, name, value)
                   /\ Goto(r, next)
                   /\ UNCHANGED raised
                \/ /\ ~Writable(value)
                   /\ Raise(r, "ValueError")
                   /\ Goto(r, "restore")
                   /\ UNCHANGED environ
    /\ UNCHANGED <<Settings, path, session_config, old, client, calls, env_at_entry>>

(* context.py 64 *)
SetHost(r) == SetVar(r, "set_host", "NEXTCLOUD_HOST", "nextcloud_host", "set_username")

(* context.py 65 *)
SetUsername(r) == SetVar(r, "set_username", "NEXTCLOUD_USERNAME", "username", "set_password")

(* context.py 66 *)
SetPassword(r) == SetVar(r, "set_password", "NEXTCLOUD_PASSWORD", "password", "from_env")

(* context.py 69-70 *)
FromEnv(r) ==
    /\ CanRun(r)
    /\ pc[r] = "from_env"
    /\ Called(r, "from_env")
    /\ \/ /\ FromEnvFails(environ)
          /\ Raise(r, "ConfigError")
          /\ UNCHANGED client
       \/ /\ ~FromEnvFails(environ)
          /\ client' = [client EXCEPT ![r] = from_env(environ, r)]
          /\ UNCHANGED raised
    /\ Goto(r, "restore")
    /\ UNCHANGED <<Settings, environ, path, session_config, old, env_at_entry>>

(* context.py 71-86, then the return or the propagating exception *)
RestoreEnv(r) ==
    /\ CanRun(r)
    /\ pc[r] = "restore"
    /\ environ' = Restore(environ, old[r])
    /\ Goto(r, IF raised[r] = "none" THEN "got_client" ELSE "done")
    /\ UNCHANGED <<Settings, path, session_config, old, client, raised, calls,
                   env_at_entry>>

(* ReturnShared building a client from the environment on every call. *)
ReturnSharedRebuilt(r) ==
    /\ Enter(r, "shared")
    /\ Called(r, "from_env")
    /\ client' = [client EXCEPT ![r] = from_env(environ, r)]
    /\ Goto(r, "got_client")
    /\ UNCHANGED <<Settings, environ, session_config, old, raised>>

(* context.py 89-90 *)
ReturnShared(r) ==
    /\ Enter(r, "shared")
    /\ client' = [client EXCEPT ![r] = SharedClient]
    /\ Goto(r, "got_client")
    /\ UNCHANGED <<Settings, environ, session_config, old, raised, calls>>

(* context.py 93-105: await get_session_client_from_context(...) *)
OAuthExchange(r) ==
    /\ Enter(r, "oauth")
    /\ OAuthHelper(enable_token_exchange) = "exchange"
    /\ Called(r, "exchange")
    /\ Goto(r, "await_exchange")
    /\ UNCHANGED <<Settings, environ, session_config, old, client, raised>>

(* The exchange answers: a client of the exchanged token, or a failure *)
(* that leaves get_client and the handler.                              *)
ExchangeDone(r) ==
    /\ CanRun(r)
    /\ pc[r] = "await_exchange"
    /\ \/ /\ client' = [client EXCEPT ![r] = ExchangedClient(r)]
          /\ Goto(r, "got_client")
          /\ UNCHANGED raised
       \/ /\ Raise(r, "AuthError")
          /\ Goto(r, "done")
          /\ UNCHANGED client
    /\ UNCHANGED <<Settings, environ, path, session_config, old, calls, env_at_entry>>

(* context.py 93-98, 106-110: get_client_from_context(...) *)
OAuthDirect(r) ==
    /\ Enter(r, "oauth")
    /\ OAuthHelper(enable_token_exchange) = "direct"
    /\ Called(r, "direct")
    /\ client' = [client EXCEPT ![r] = InboundClient(r)]
    /\ Goto(r, "got_client")
    /\ UNCHANGED <<Settings, environ, session_config, old, raised>>

(* context.py 112-116 *)
RaiseUnknown(r) ==
    /\ Enter(r, "unknown")
    /\ Raise(r, "AttributeError")
    /\ Goto(r, "done")
    /\ UNCHANGED <<Settings, environ, session_config, old, client, calls>>

(* smithery_server.py 111-112: await client.capabilities() *)
CallCapabilities(r) ==
    /\ CanRun(r)
    /\ pc[r] = "got_client"
    /\ Called(r, "capabilities")
    /\ Goto(r, "await_capabilities")
    /\ UNCHANGED <<Settings, environ, path, session_config, old, client, raised,
                   env_at_entry>>

(* CapabilitiesDone with close() after the call instead of in finally. *)
CapabilitiesDoneWithoutFinally(r) ==
    /\ CanRun(r)
    /\ pc[r] = "await_capabilities"
    /\ \/ /\ Called(r, "close")
          /\ Goto(r, "await_close")
          /\ UNCHANGED raised
       \/ /\ Raise(r, "RemoteError")
          /\ Goto(r, "done")
          /\ UNCHANGED calls
    /\ UNCHANGED <<Settings, environ, path, session_config, old, client, env_at_entry>>

(* smithery_server.py 112-114: capabilities() returns or fails, and the *)
(* finally block awaits client.close().                                  *)
CapabilitiesDone(r) ==
    /\ CanRun(r)
    /\ pc[r] = "await_capabilities"
    /\ \/ UNCHANGED raised
       \/ Raise(r, "RemoteError")
    /\ Called(r, "close")
    /\ Goto(r, "await_close")
    /\ UNCHANGED <<Settings, environ, path, session_config, old, client, env_at_entry>>

(* smithery_server.py 114: close() is over and the handler exits *)
CloseDone(r) ==
    /\ CanRun(r)
    /\ pc[r] = "await_close"
    /\ Goto(r, "done")
    /\ UNCHANGED <<Settings, environ, path, session_config, old, client, raised, calls,
                   env_at_entry>>

Next ==
    \E r \in Reqs :
        \/ EnterSession(r)
        \/ SaveOld(r)
        \/ SetHost(r)
        \/ SetUsername(r)
        \/ SetPassword(r)
        \/ FromEnv(r)
        \/ RestoreEnv(r)
        \/ ReturnShared(r)
        \/ OAuthExchange(r)
        \/ ExchangeDone(r)
        \/ OAuthDirect(r)
        \/ RaiseUnknown(r)
        \/ CallCapabilities(r)
        \/ CapabilitiesDone(r)
        \/ CloseDone(r)

Spec == Init /\ [][Next]_vars

----------------------------------------------------------------------------
(* Vocabulary of the properties. *)

(* Labels inside the session branch of get_client, lines 59-86. *)
InsideSession ==
    {"save_old", "set_host", "set_username", "set_password", "from_env", "restore"}

(* get_client has returned a client to the handler. *)
Returned(r) == pc[r] \in {"got_client", "await_capabilities", "await_close"}
                  \/ (pc[r] = "done" /\ client[r] # NoClient)

(* get_client is over, by return or by exception. *)
Exited(r) == Returned(r) \/ pc[r] = "done"

(* The text of the configured host: str(url) of an object, the string of a dict. *)
HostText(cfg) ==
    IF cfg.kind = "object" THEN Str(cfg.nextcloud_host) ELSE cfg.nextcloud_host

(* The client is built from the three values of cfg. *)
BuiltFrom(c, cfg) ==
    /\ c.kind = "env"
    /\ c.host = HostText(cfg)
    /\ c.username = cfg.username
    /\ c.password = cfg.password

(* The environment holds the three values of cfg. *)
EnvHolds(env, cfg) ==
    /\ env["NEXTCLOUD_HOST"] = HostText(cfg)
    /\ env["NEXTCLOUD_USERNAME"] = cfg.username
    /\ env["NEXTCLOUD_PASSWORD"] = cfg.password

TruthyMarker == lifespan_ctx.smithery_mode = "true"

(* How many of the three recognised shapes the lifespan context matches. *)
ShapesMatched ==
    (IF TruthyMarker THEN 1 ELSE 0)
    + (IF lifespan_ctx.has_client THEN 1 ELSE 0)
    + (IF lifespan_ctx.has_nextcloud_host THEN 1 ELSE 0)

TokenHelperCalls(r) == calls[r].exchange + calls[r].direct

----------------------------------------------------------------------------
(* C1: with session-mode calls of different configurations in flight in   *)
(* one process, interleaving at awaits only, from_env() of each call reads *)
(* that call's own host, username and password: the environment holds the  *)
(* caller's values when from_env() runs, and the client it builds carries  *)
(* them.                                                                   *)
C1_ClientReadsOwnConfig ==
    \A r \in Reqs :
        /\ pc[r] = "from_env" => EnvHolds(environ, session_config[r])
        /\ client[r].kind = "env" => BuiltFrom(client[r], session_config[r])

(* Two session calls with different configurations, both holding a client *)
(* while neither request has ended.                                         *)
C1_Witness ==
    \E r1, r2 \in Reqs :
        /\ pc[r1] = "await_capabilities" /\ pc[r2] = "await_capabilities"
        /\ client[r1].kind = "env" /\ client[r2].kind = "env"
        /\ client[r1].host = "https://a.example" /\ client[r1].username = "U1"
        /\ client[r2].host = "https://b.example" /\ client[r2].username = "U2"

(* C2: a session-mode get_client call leaves the three variables exactly  *)
(* as it found them, absent ones absent, on the normal return, on a failed *)
(* write into the environment and on a failure of from_env().              *)
C2_EnvironmentRestoredOnExit ==
    [][\A r \in Reqs :
          (pc[r] = "restore" /\ pc'[r] # "restore") => environ' = env_at_entry[r]]_vars

(* One call left after a failed write and another after from_env() failed, *)
(* in a process that started with a variable absent.                        *)
C2_Witness ==
    \E r1, r2 \in Reqs :
        /\ path[r1] = "session" /\ pc[r1] = "done" /\ raised[r1] = "ValueError"
        /\ path[r2] = "session" /\ pc[r2] = "done" /\ raised[r2] = "ConfigError"
        /\ calls[r2].from_env = 1
        /\ \E v \in EnvVars : environ0[v] = None

(* C3: whenever no session-mode call is inside get_client, however many   *)
(* have run one after another or interleaved, the three variables have the *)
(* values they had before the first call.                                  *)
C3_NoCredentialPersists ==
    (\A r \in Reqs : pc[r] \notin InsideSession) => environ = environ0

(* Every request ran the session branch to its end, one of them with its *)
(* credentials written and a client built from them.                      *)
C3_Witness ==
    /\ \A r \in Reqs : path[r] = "session" /\ pc[r] = "done"
    /\ \E r \in Reqs : client[r].kind = "env"
    /\ \E r \in Reqs : raised[r] = "ConfigError"

(* C4: get_client selects its branch by precedence: a truthy smithery_mode *)
(* the session branch, else a client attribute the shared client, else a    *)
(* nextcloud_host attribute the OAuth branch; with none of them it raises   *)
(* AttributeError, builds no client, calls no helper and leaves the         *)
(* environment alone.                                                       *)
C4_PrecedenceDispatch ==
    \A r \in Reqs :
        path[r] # "none" =>
            /\ TruthyMarker => path[r] = "session" /\ session_config[r].kind # "none"
            /\ (~TruthyMarker /\ lifespan_ctx.has_client) =>
                   path[r] = "shared" /\ client[r] = SharedClient
            /\ (~TruthyMarker /\ ~lifespan_ctx.has_client
                   /\ lifespan_ctx.has_nextcloud_host) =>
                   path[r] = "oauth" /\ TokenHelperCalls(r) = 1
            /\ ShapesMatched = 0 =>
                   /\ path[r] = "unknown"
                   /\ pc[r] = "done"
                   /\ raised[r] = "AttributeError"
                   /\ client[r] = NoClient
                   /\ calls[r] = NoCalls
                   /\ environ = env_at_entry[r]

(* A context whose only attribute is a false smithery_mode was rejected. *)
C4_Witness ==
    /\ lifespan_ctx.smithery_mode = "false"
    /\ ~lifespan_ctx.has_client /\ ~lifespan_ctx.has_nextcloud_host
    /\ \E r \in Reqs : pc[r] = "done" /\ raised[r] = "AttributeError"

(* C5 as stated: for a context that matches none or more than one of the *)
(* three shapes get_client raises and returns no client.                  *)
C5_ExactlyOneShapeOrFail ==
    \A r \in Reqs : (Exited(r) /\ ShapesMatched # 1) => client[r] = NoClient

(* C5 amended: get_client raises the malformed-context error exactly when *)
(* the context matches none of the three shapes; a context that matches    *)
(* more than one is resolved by precedence, and one with a client and a    *)
(* nextcloud_host gets the shared client back without an error.            *)
C5_RaisesIffNoShape ==
    \A r \in Reqs :
        path[r] # "none" =>
            /\ (ShapesMatched = 0) <=> (path[r] = "unknown")
            /\ path[r] = "unknown" =>
                   raised[r] = "AttributeError" /\ client[r] = NoClient
            /\ (ShapesMatched > 1 /\ ~TruthyMarker) =>
                   /\ client[r] = SharedClient
                   /\ raised[r] \in {"none", "RemoteError"}
            /\ (ShapesMatched > 1 /\ TruthyMarker) => path[r] = "session"

(* A context with both a client and a nextcloud_host returned its client. *)
C5_Witness ==
    /\ lifespan_ctx.has_client /\ lifespan_ctx.has_nextcloud_host /\ ~TruthyMarker
    /\ \E r \in Reqs : Returned(r) /\ client[r] = SharedClient

(* C6: every complete, well-formed session configuration delivered in     *)
(* session mode, the one parsed from the query parameters included, gives  *)
(* a client built from exactly its host, username and password.            *)
C6_ClientFromSessionConfig ==
    \A r \in Reqs :
        ( /\ path[r] = "session"
          /\ Exited(r)
          /\ session_config[r].username \notin {Missing} \cup Unwritable
          /\ session_config[r].password \notin {Missing} \cup Unwritable
          /\ HostText(session_config[r]) \notin {Missing} \cup MalformedHosts )
        => BuiltFrom(client[r], session_config[r])

(* C7: in static-credential mode every call returns the shared client of *)
(* the context, no client is constructed, no token helper is called and   *)
(* the three variables stay as they were.                                 *)
C7_SharedClientReturned ==
    (lifespan_ctx.has_client /\ ~TruthyMarker) =>
        /\ environ = environ0
        /\ \A r \in Reqs :
              /\ Exited(r) => client[r] = SharedClient /\ raised[r] \in {"none", "RemoteError"}
              /\ calls[r].from_env = 0
              /\ TokenHelperCalls(r) = 0

(* Every request of a static-mode process holds the same client instance. *)
C7_Witness ==
    /\ lifespan_ctx.has_client /\ ~TruthyMarker
    /\ \A r \in Reqs : Returned(r) /\ client[r].id = SharedClient.id
                          /\ client[r].kind = "shared"

OAuthMode ==
    ~TruthyMarker /\ ~lifespan_ctx.has_client /\ lifespan_ctx.has_nextcloud_host

(* C8: in OAuth mode with token exchange enabled a resolution invokes the *)
(* exchange helper once and the direct builder never; a returned client is *)
(* the exchanged one, and a failed exchange reaches the caller with no     *)
(* client.                                                                 *)
C8_ExchangeOnceNoPassthrough ==
    (OAuthMode /\ enable_token_exchange) =>
        \A r \in Reqs :
            /\ calls[r].direct = 0
            /\ calls[r].exchange = (IF path[r] = "none" THEN 0 ELSE 1)
            /\ Returned(r) => client[r] = ExchangedClient(r)
            /\ raised[r] = "AuthError" =>
                   pc[r] = "done" /\ client[r] = NoClient /\ calls[r].capabilities = 0
            /\ (pc[r] = "done" /\ client[r] = NoClient) => raised[r] = "AuthError"

(* One resolution failed in the exchange and another got its client. *)
C8_Witness ==
    /\ OAuthMode /\ enable_token_exchange
    /\ \E r1, r2 \in Reqs :
          /\ raised[r1] = "AuthError" /\ pc[r1] = "done"
          /\ Returned(r2) /\ client[r2].kind = "exchanged"

(* C9: in OAuth mode with token exchange disabled the client is built from *)
(* the inbound token and the exchange helper is never invoked.              *)
C9_DirectNoExchange ==
    (OAuthMode /\ ~enable_token_exchange) =>
        \A r \in Reqs :
            /\ calls[r].exchange = 0
            /\ pc[r] # "await_exchange"
            /\ calls[r].direct = (IF path[r] = "none" THEN 0 ELSE 1)
            /\ path[r] # "none" => client[r] = InboundClient(r)

(* A resolution returned the inbound-token client. *)
C9_Witness ==
    /\ OAuthMode /\ ~enable_token_exchange
    /\ \E r \in Reqs : Returned(r) /\ client[r].kind = "inbound" /\ calls[r].direct = 1

(* C10: the capabilities handler closes every client get_client returned  *)
(* exactly once before it exits, whether capabilities() returned or        *)
(* failed, and closes nothing when get_client failed.                      *)
C10_ClientClosedOnce ==
    \A r \in Reqs :
        /\ calls[r].close <= 1
        /\ pc[r] = "done" =>
              /\ client[r] # NoClient => calls[r].close = 1 /\ calls[r].capabilities = 1
              /\ client[r] = NoClient =>
                     calls[r].close = 0 /\ calls[r].capabilities = 0 /\ raised[r] # "none"
        /\ calls[r].close = 1 => calls[r].capabilities = 1 /\ client[r] # NoClient

(* In session mode one handler ended after capabilities() failed, another *)
(* after get_client failed.                                                *)
C10_Witness ==
    /\ lifespan_ctx = SmitheryAppContext
    /\ \E r1, r2 \in Reqs :
          /\ pc[r1] = "done" /\ raised[r1] = "RemoteError" /\ calls[r1].close = 1
          /\ pc[r2] = "done" /\ client[r2] = NoClient /\ calls[r2].close = 0

============================================================================
